---- MODULE Spec2Model ----
(***************************************************************************)
(* Exponential smoothing accumulators of src/Common/                       *)
(* ExponentiallySmoothedCounter.h and their aggregate-function bindings    *)
(* (AggregateFunctionExponentialSmoothing.cpp, AggregateFunctionHolt.cpp,  *)
(* and AggregateFunctionHoltWinters.cpp, whose accumulator structs are not *)
(* part of the sources: of the Holt-Winters functions only the constructor *)
(* and the result column are followed, in SpecFunction).                   *)
(*                                                                         *)
(* Numbers.  A C++ double is modelled by an exact rational <<n, d>> in     *)
(* lowest terms (d > 0); <<n, 0>> stands for the non-finite result of a    *)
(* division by zero.  The variable `precision` fixes the arithmetic of a   *)
(* behaviour: 0 is real arithmetic (no operation rounds), p > 0 is binary  *)
(* floating point with p significant bits, every operation rounding its    *)
(* exact result to the nearest such number, ties to even, as IEEE 754      *)
(* does with p = 53; the exponent range is not bounded.  Spec runs in      *)
(* real arithmetic: the algebraic laws below are equalities of exact       *)
(* values.  SpecFloat runs the count-indexed structs in both arithmetics.  *)
(* uint64_t counts and timestamps are naturals far below 2^64, so the      *)
(* unsigned subtractions of the code (always guarded by a comparison)      *)
(* never wrap.                                                             *)
(***************************************************************************)
EXTENDS Integers, Sequences, FiniteSets, TLC

----------------------------------------------------------------------------
(* Exact rational arithmetic standing for double arithmetic.               *)

Abs(n) == IF n < 0 THEN -n ELSE n

RECURSIVE GCD(_, _)
GCD(a, b) == IF b = 0 THEN a ELSE GCD(b, a % b)

R(n, d) ==
    IF d = 0 THEN <<(IF n > 0 THEN 1 ELSE IF n < 0 THEN -1 ELSE 0), 0>>
    ELSE LET g == GCD(Abs(n), Abs(d))
             s == IF d < 0 THEN -1 ELSE 1
         IN  <<(s * n) \div g, (s * d) \div g>>

Zero == R(0, 1)
One == R(1, 1)
Half == R(1, 2)
Third == R(1, 3)
Two == R(2, 1)

RInt(n) == R(n, 1)

\* The significant bits of the arithmetic; 0 for real arithmetic.
VARIABLE precision

RECURSIVE Pow2(_)
Pow2(k) == IF k = 0 THEN 1 ELSE 2 * Pow2(k - 1)

\* n / d scaled by a power of two into [2^(p-1), 2^p): <<n', d', exponent>>.
RECURSIVE Normalize(_, _, _, _)
Normalize(n, d, e, p) ==
    IF n >= Pow2(p) * d THEN Normalize(n, 2 * d, e + 1, p)
    ELSE IF n < Pow2(p - 1) * d THEN Normalize(2 * n, d, e - 1, p)
    ELSE <<n, d, e>>

\* The integer nearest to n / d, the even one of two equally near.
NearestEven(n, d) ==
    LET m == n \div d
        r == n % d
    IN  IF 2 * r > d \/ (2 * r = d /\ m % 2 = 1) THEN m + 1 ELSE m

\* sign * m * 2^e as a rational.
Scaled(sign, m, e) ==
    IF e >= 0 THEN R(sign * m * Pow2(e), 1) ELSE R(sign * m, Pow2(-e))

\* The rounding of the normalized <<n, d, exponent>>.
RoundNormalized(sign, t) == Scaled(sign, NearestEven(t[1], t[2]), t[3])

\* The number of p significant bits nearest to x.
RoundTo(x, p) ==
    IF x[1] = 0 \/ x[2] = 0 THEN x
    ELSE RoundNormalized(IF x[1] < 0 THEN -1 ELSE 1,
                         Normalize(Abs(x[1]), x[2], 0, p))

\* The result of one arithmetic operation whose exact value is x.
Round(x) == IF precision = 0 THEN x ELSE RoundTo(x, precision)

RAdd(x, y) == Round(R(x[1] * y[2] + y[1] * x[2], x[2] * y[2]))
RSub(x, y) == Round(R(x[1] * y[2] - y[1] * x[2], x[2] * y[2]))
RMul(x, y) == Round(R(x[1] * y[1], x[2] * y[2]))
RDiv(x, y) == Round(R(x[1] * y[2], x[2] * y[1]))

----------------------------------------------------------------------------
(* struct DataHelper                                                       *)

\* scale: binary power, the loop of the code with its three locals.
RECURSIVE scale_loop(_, _, _)
RECURSIVE scale_loop_SquaresFirst(_, _, _)

\* Mutant: squares value before the set bit multiplies it into result.
scale_loop_SquaresFirst(result, value, count) ==
    IF count = 0 THEN result
    ELSE scale_loop_SquaresFirst(
             IF count % 2 = 1 THEN RMul(result, RMul(value, value)) ELSE result,
             RMul(value, value),
             count \div 2)

scale_loop(result, value, count) ==
    IF count = 0 THEN result
    ELSE scale_loop(IF count % 2 = 1 THEN RMul(result, value) ELSE result,
                    RMul(value, value),
                    count \div 2)

scale(value, count) == scale_loop(One, value, count)

\* Mutant: decays by one tick however long the gap.
scale_one_minus_value_OneTick(value, count) == scale(RSub(One, value), IF count = 0 THEN 0 ELSE 1)

scale_one_minus_value(value, count) == scale(RSub(One, value), count)

\* std::optional<std::pair<double, uint64_t>>: `was` is has_value().
make_optional_timestamped_value(value, timestamp) ==
    [was |-> TRUE, value |-> value, timestamp |-> timestamp]

make_empty_optional == [was |-> FALSE, value |-> Zero, timestamp |-> 0]

get_value(o) == IF o.was THEN o.value ELSE Zero

get_timestamp(o) == IF o.was THEN o.timestamp ELSE 0

\* Mutant: keeps a when the timestamps are equal.
min_or_merge_KeepsA(a, b) ==
    IF ~a.was \/ ~b.was
    THEN (IF a.was THEN a ELSE b)
    ELSE IF get_timestamp(a) <= get_timestamp(b) THEN a ELSE b

min_or_merge(a, b) ==
    IF ~a.was \/ ~b.was
    THEN (IF a.was THEN a ELSE b)
    ELSE IF get_timestamp(a) = get_timestamp(b)
    THEN make_optional_timestamped_value(RAdd(get_value(a), get_value(b)), get_timestamp(a))
    ELSE IF get_timestamp(a) < get_timestamp(b) THEN a ELSE b

\* Mutant: returns the other marker when one is empty.
max_or_empty_OrOther(a, b) ==
    IF ~a.was \/ ~b.was
    THEN (IF a.was THEN a ELSE b)
    ELSE IF get_timestamp(a) = get_timestamp(b)
    THEN make_empty_optional
    ELSE IF get_timestamp(a) > get_timestamp(b) THEN a ELSE b

\* Mutant: takes b for the later marker without comparing the timestamps.
max_or_empty_PrefersB(a, b) ==
    IF ~a.was \/ ~b.was
    THEN make_empty_optional
    ELSE IF get_timestamp(a) = get_timestamp(b)
    THEN make_empty_optional
    ELSE b

max_or_empty(a, b) ==
    IF ~a.was \/ ~b.was
    THEN make_empty_optional
    ELSE IF get_timestamp(a) = get_timestamp(b)
    THEN make_empty_optional
    ELSE IF get_timestamp(a) > get_timestamp(b) THEN a ELSE b

Max(a, b) == IF a > b THEN a ELSE b

----------------------------------------------------------------------------
(* Accumulator states.  One record shape serves the six structs; a field   *)
(* a struct does not have keeps its default.  A call returns either a      *)
(* state or the exception it throws.                                       *)

State(value, trend, timestamp, count, first_value, first_trend) ==
    [value |-> value, trend |-> trend, timestamp |-> timestamp, count |-> count,
     first_value |-> first_value, first_trend |-> first_trend]

Empty == State(Zero, Zero, 0, 0, make_empty_optional, make_empty_optional)

Ret(s) == [exc |-> "none", st |-> s]
Throw(e) == [exc |-> e, st |-> Empty]

----------------------------------------------------------------------------
(* struct ExponentiallySmoothedAlpha (count-indexed simple smoothing)      *)

Alpha1(current_value) ==
    State(current_value, Zero, 0, 1, make_empty_optional, make_empty_optional)

Alpha2(current_value, current_count) ==
    State(current_value, Zero, 0, current_count, make_empty_optional, make_empty_optional)

Alpha_remap(s, current_count, alpha) ==
    IF current_count < s.count
    THEN Throw("logic_error")
    ELSE Ret(Alpha2(RMul(s.value, scale_one_minus_value(alpha, current_count - s.count)),
                    current_count))

\* Mutant: weighs the state by alpha and the new value by 1 - alpha.
Alpha_merge_WeighsOld(a, b, alpha) ==
    IF a.count = 0 \/ b.count = 0
    THEN Ret(IF a.count = 0 THEN b ELSE a)
    ELSE IF b.count = 1
    THEN Ret(Alpha2(RAdd(RMul(alpha, a.value), RMul(RSub(One, alpha), b.value)),
                    b.count + a.count))
    ELSE Throw("logic_error")

\* Mutant: folds a multi-valued b in as if it were a single value.
Alpha_merge_AcceptsBlocks(a, b, alpha) ==
    IF a.count = 0 \/ b.count = 0
    THEN Ret(IF a.count = 0 THEN b ELSE a)
    ELSE Ret(Alpha2(RAdd(RMul(alpha, b.value), RMul(RSub(One, alpha), a.value)),
                    b.count + a.count))

Alpha_merge(a, b, alpha) ==
    IF a.count = 0 \/ b.count = 0
    THEN Ret(IF a.count = 0 THEN b ELSE a)
    ELSE IF b.count = 1
    THEN Ret(Alpha2(RAdd(RMul(alpha, b.value), RMul(RSub(One, alpha), a.value)),
                    b.count + a.count))
    ELSE Throw("logic_error")

\* Mutant: weighs the first value by alpha as it does every later one.
Alpha_add_DecaysFirst(s, new_value, alpha) ==
    IF s.count = 0 THEN Ret(Alpha1(RMul(alpha, new_value)))
    ELSE Alpha_merge(s, Alpha1(new_value), alpha)

Alpha_add(s, new_value, alpha) == Alpha_merge(s, Alpha1(new_value), alpha)

Alpha_get(s, alpha) == s.value

----------------------------------------------------------------------------
(* struct ExponentiallySmoothedAlphaWithTime (gaps weigh nothing)          *)

AlphaWithTime2(current_value, current_time) ==
    State(current_value, Zero, current_time, 0,
          make_optional_timestamped_value(current_value, current_time), make_empty_optional)

AlphaWithTime3(current_value, current_time, current_first_value) ==
    State(current_value, Zero, current_time, 0, current_first_value, make_empty_optional)

\* Mutant: refuses a remap to the state's own timestamp.
AlphaWithTime_remap_Strict(s, current_time, alpha) ==
    IF current_time <= s.timestamp
    THEN Throw("logic_error")
    ELSE Ret(AlphaWithTime3(
                 RMul(s.value, scale_one_minus_value(alpha, current_time - s.timestamp)),
                 current_time,
                 s.first_value))

AlphaWithTime_remap(s, current_time, alpha) ==
    IF current_time < s.timestamp
    THEN Throw("logic_error")
    ELSE Ret(AlphaWithTime3(
                 RMul(s.value, scale_one_minus_value(alpha, current_time - s.timestamp)),
                 current_time,
                 s.first_value))

\* Mutant: keeps the marker of the later first value.
AlphaWithTime_merge_KeepsLaterFirst(a, b, alpha) ==
    IF ~a.first_value.was \/ ~b.first_value.was
    THEN Ret(IF a.first_value.was THEN a ELSE b)
    ELSE LET max_time == Max(a.timestamp, b.timestamp)
             remapped_a == AlphaWithTime_remap(a, max_time, alpha)
             remapped_b == AlphaWithTime_remap(b, max_time, alpha)
         IN  IF remapped_a.exc # "none" THEN remapped_a
             ELSE IF remapped_b.exc # "none" THEN remapped_b
             ELSE LET min_first_value ==
                          min_or_merge(remapped_a.st.first_value, remapped_b.st.first_value)
                      max_first_value ==
                          max_or_empty(remapped_a.st.first_value, remapped_b.st.first_value)
                  IN  Ret(AlphaWithTime3(
                          RSub(RAdd(remapped_a.st.value, remapped_b.st.value),
                               RMul(RMul(get_value(max_first_value),
                                         scale_one_minus_value(alpha,
                                             max_time - get_timestamp(max_first_value))),
                                    RSub(One, alpha))),
                          max_time,
                          IF max_first_value.was THEN max_first_value ELSE min_first_value))

AlphaWithTime_merge(a, b, alpha) ==
    IF ~a.first_value.was \/ ~b.first_value.was
    THEN Ret(IF a.first_value.was THEN a ELSE b)
    ELSE LET max_time == Max(a.timestamp, b.timestamp)
             remapped_a == AlphaWithTime_remap(a, max_time, alpha)
             remapped_b == AlphaWithTime_remap(b, max_time, alpha)
         IN  IF remapped_a.exc # "none" THEN remapped_a
             ELSE IF remapped_b.exc # "none" THEN remapped_b
             ELSE LET min_first_value ==
                          min_or_merge(remapped_a.st.first_value, remapped_b.st.first_value)
                      max_first_value ==
                          max_or_empty(remapped_a.st.first_value, remapped_b.st.first_value)
                  IN  Ret(AlphaWithTime3(
                          RSub(RAdd(remapped_a.st.value, remapped_b.st.value),
                               RMul(RMul(get_value(max_first_value),
                                         scale_one_minus_value(alpha,
                                             max_time - get_timestamp(max_first_value))),
                                    RSub(One, alpha))),
                          max_time,
                          min_first_value))

AlphaWithTime_add(s, new_value, new_time, alpha) ==
    AlphaWithTime_merge(s, AlphaWithTime2(new_value, new_time), alpha)

----------------------------------------------------------------------------
(* struct ExponentiallySmoothedAlphaWithTimeFillGaps (gaps are filled by   *)
(* the current value).  merge, add, add_predict and predict_until call     *)
(* one another as in the code.                                             *)

AlphaFillGaps2(current_value, current_time) ==
    State(current_value, Zero, current_time, 1, make_empty_optional, make_empty_optional)

AlphaFillGaps3(current_value, current_time, current_count) ==
    State(current_value, Zero, current_time, current_count,
          make_empty_optional, make_empty_optional)

AlphaFillGaps_remap(s, current_time, alpha) ==
    IF current_time < s.timestamp
    THEN Throw("logic_error")
    ELSE Ret(AlphaFillGaps3(
                 RMul(s.value, scale_one_minus_value(alpha, current_time - s.timestamp)),
                 current_time,
                 s.count))

AlphaFillGaps_get(s, alpha) == s.value

RECURSIVE AlphaFillGaps_merge(_, _, _)
RECURSIVE AlphaFillGaps_add(_, _, _, _)
RECURSIVE AlphaFillGaps_add_predict(_, _)
RECURSIVE AlphaFillGaps_predict_loop(_, _, _)
RECURSIVE AlphaFillGaps_predict_until(_, _, _)

\* Mutant: appends b without filling the ticks between a and b.
AlphaFillGaps_merge_NoFill(a, b, alpha) ==
    IF a.count = 0 \/ b.count = 0
    THEN Ret(IF a.count = 0 THEN b ELSE a)
    ELSE IF b.count = 1
    THEN IF b.timestamp <= a.timestamp
         THEN Throw("logic_error")
         ELSE Ret(AlphaFillGaps3(
                      RAdd(RMul(alpha, b.value), RMul(RSub(One, alpha), a.value)),
                      b.timestamp,
                      a.count + b.count))
    ELSE Throw("logic_error")

AlphaFillGaps_merge(a, b, alpha) ==
    IF a.count = 0 \/ b.count = 0
    THEN Ret(IF a.count = 0 THEN b ELSE a)
    ELSE IF b.count = 1
    THEN LET predicted_a == AlphaFillGaps_predict_until(a, b.timestamp, alpha)
         IN  IF predicted_a.exc # "none" THEN predicted_a
             ELSE Ret(AlphaFillGaps3(
                          RAdd(RMul(alpha, b.value),
                               RMul(RSub(One, alpha), predicted_a.st.value)),
                          b.timestamp,
                          predicted_a.st.count + b.count))
    ELSE Throw("logic_error")

AlphaFillGaps_add(s, new_value, new_time, alpha) ==
    IF s.count > 0 /\ new_time <= s.timestamp
    THEN Throw("logic_error")
    ELSE AlphaFillGaps_merge(s, AlphaFillGaps2(new_value, new_time), alpha)

\* Mutant: fills a tick with the value zero.
AlphaFillGaps_add_predict_AddsZero(s, alpha) ==
    IF s.count = 0
    THEN Throw("logic_error")
    ELSE LET new_time == s.timestamp + 1
         IN  IF new_time < s.timestamp
             THEN Throw("logic_error")
             ELSE AlphaFillGaps_add(s, Zero, new_time, alpha)

\* The wrap check of new_time cannot fire: timestamps are far below 2^64.
AlphaFillGaps_add_predict(s, alpha) ==
    IF s.count = 0
    THEN Throw("logic_error")
    ELSE LET new_time == s.timestamp + 1
         IN  IF new_time < s.timestamp
             THEN Throw("logic_error")
             ELSE AlphaFillGaps_add(s, AlphaFillGaps_get(s, alpha), new_time, alpha)

\* while (copy_of_this.timestamp + 1 < current_time) copy_of_this.add_predict(alpha);
AlphaFillGaps_predict_loop(copy_of_this, current_time, alpha) ==
    IF copy_of_this.timestamp + 1 < current_time
    THEN LET next == AlphaFillGaps_add_predict(copy_of_this, alpha)
         IN  IF next.exc # "none" THEN next
             ELSE AlphaFillGaps_predict_loop(next.st, current_time, alpha)
    ELSE Ret(copy_of_this)

\* Mutant: predicts until the state's own timestamp too.
AlphaFillGaps_predict_until_AllowsSameTime(s, current_time, alpha) ==
    IF current_time < s.timestamp
    THEN Throw("logic_error")
    ELSE AlphaFillGaps_predict_loop(s, current_time, alpha)

AlphaFillGaps_predict_until(s, current_time, alpha) ==
    IF current_time <= s.timestamp
    THEN Throw("logic_error")
    ELSE AlphaFillGaps_predict_loop(s, current_time, alpha)

----------------------------------------------------------------------------
(* struct Holt (count-indexed level + trend)                               *)

\* Mutant: a single value is its own trend.
Holt1_TrendFromValue(current_value) ==
    State(current_value, current_value, 0, 1, make_empty_optional, make_empty_optional)

Holt1(current_value) ==
    State(current_value, Zero, 0, 1, make_empty_optional, make_empty_optional)

Holt3(current_value, current_trend, current_count) ==
    State(current_value, current_trend, 0, current_count,
          make_empty_optional, make_empty_optional)

\* Mutant: refuses a remap to the state's own count.
Holt_remap_Strict(s, current_count, alpha, beta) ==
    IF current_count <= s.count
    THEN Throw("logic_error")
    ELSE Ret(Holt3(RMul(s.value, scale_one_minus_value(alpha, current_count - s.count)),
                   RMul(s.trend, scale_one_minus_value(beta, current_count - s.count)),
                   current_count))

Holt_remap(s, current_count, alpha, beta) ==
    IF current_count < s.count
    THEN Throw("logic_error")
    ELSE Ret(Holt3(RMul(s.value, scale_one_minus_value(alpha, current_count - s.count)),
                   RMul(s.trend, scale_one_minus_value(beta, current_count - s.count)),
                   current_count))

\* Mutant: takes the trend from the level's distance to the forecast.
Holt_merge_TrendFromForecast(a, b, alpha, beta) ==
    IF a.count = 0 \/ b.count = 0
    THEN Ret(IF a.count = 0 THEN b ELSE a)
    ELSE IF b.count = 1
    THEN IF a.count = 1
         THEN Ret(Holt3(RAdd(RMul(alpha, b.value), RMul(RSub(One, alpha), a.value)),
                        RSub(b.value, a.value),
                        2))
         ELSE LET new_value == RAdd(RMul(alpha, b.value),
                                    RMul(RSub(One, alpha), RAdd(a.value, a.trend)))
              IN  Ret(Holt3(new_value,
                            RAdd(RMul(beta, RSub(new_value, RAdd(a.value, a.trend))),
                                 RMul(RSub(One, beta), a.trend)),
                            a.count + 1))
    ELSE Throw("logic_error")

\* Mutant: tests only a for emptiness.
Holt_merge_ForgetsEmptyB(a, b, alpha, beta) ==
    IF a.count = 0
    THEN Ret(b)
    ELSE IF b.count = 1
    THEN IF a.count = 1
         THEN Ret(Holt3(RAdd(RMul(alpha, b.value), RMul(RSub(One, alpha), a.value)),
                        RSub(b.value, a.value),
                        2))
         ELSE LET new_value == RAdd(RMul(alpha, b.value),
                                    RMul(RSub(One, alpha), RAdd(a.value, a.trend)))
              IN  Ret(Holt3(new_value,
                            RAdd(RMul(beta, RSub(new_value, a.value)),
                                 RMul(RSub(One, beta), a.trend)),
                            a.count + 1))
    ELSE Throw("logic_error")

Holt_merge(a, b, alpha, beta) ==
    IF a.count = 0 \/ b.count = 0
    THEN Ret(IF a.count = 0 THEN b ELSE a)
    ELSE IF b.count = 1
    THEN IF a.count = 1
         THEN Ret(Holt3(RAdd(RMul(alpha, b.value), RMul(RSub(One, alpha), a.value)),
                        RSub(b.value, a.value),
                        2))
         ELSE LET new_value == RAdd(RMul(alpha, b.value),
                                    RMul(RSub(One, alpha), RAdd(a.value, a.trend)))
              IN  Ret(Holt3(new_value,
                            RAdd(RMul(beta, RSub(new_value, a.value)),
                                 RMul(RSub(One, beta), a.trend)),
                            a.count + 1))
    ELSE Throw("logic_error")

Holt_add(s, new_value, alpha, beta) == Holt_merge(s, Holt1(new_value), alpha, beta)

----------------------------------------------------------------------------
(* struct HoltWithTime (time-indexed level + trend, gaps ignored)          *)

HoltWithTime5(current_value, current_trend, current_timestamp, first_v, first_t) ==
    State(current_value, current_trend, current_timestamp, 0, first_v, first_t)

HoltWithTime2(current_value, current_timestamp) ==
    State(current_value, Zero, current_timestamp, 0,
          make_optional_timestamped_value(current_value, current_timestamp),
          make_empty_optional)

HoltWithTime_remap(s, current_time, alpha, beta) ==
    IF current_time < s.timestamp
    THEN Throw("logic_error")
    ELSE Ret(HoltWithTime5(
                 RMul(s.value, scale_one_minus_value(alpha, current_time - s.timestamp)),
                 RMul(s.trend, scale_one_minus_value(beta, current_time - s.timestamp)),
                 current_time,
                 s.first_value,
                 s.first_trend))

\* Mutant: takes the first trend as the difference of the two values.
HoltWithTime_merge_first_trend_RawDifference(a, b, remapped_a, remapped_b, max_time, alpha) ==
    LET max_value == max_or_empty(a.first_value, b.first_value)
        min_value == min_or_merge(a.first_value, b.first_value)
        trend == RSub(get_value(max_value), get_value(min_value))
    IN  HoltWithTime5(
            RSub(RAdd(remapped_a.value, remapped_b.value),
                 RMul(get_value(max_value), RSub(One, alpha))),
            trend,
            max_time,
            min_value,
            make_optional_timestamped_value(trend, max_time))

\* Neither side has a trend and the timestamps differ (lines 771-784).
HoltWithTime_merge_first_trend(a, b, remapped_a, remapped_b, max_time, alpha) ==
    LET max_value == max_or_empty(a.first_value, b.first_value)
        min_value == min_or_merge(a.first_value, b.first_value)
        trend == RDiv(RSub(get_value(max_value), get_value(min_value)),
                      RInt(get_timestamp(max_value) - get_timestamp(min_value)))
    IN  HoltWithTime5(
            RSub(RAdd(remapped_a.value, remapped_b.value),
                 RMul(get_value(max_value), RSub(One, alpha))),
            trend,
            max_time,
            min_value,
            make_optional_timestamped_value(trend, max_time))

\* a has a trend, b has none and the timestamps differ (lines 801-814).
HoltWithTime_merge_with_trend(a, b, remapped_a, remapped_b, max_time, alpha, beta) ==
    LET excess_value == max_or_empty(a.first_value, b.first_value)
        excess_trend == max_or_empty(a.first_trend, b.first_trend)
    IN  HoltWithTime5(
            RSub(RAdd(remapped_a.value, remapped_b.value),
                 RMul(RMul(get_value(excess_value),
                           scale_one_minus_value(alpha,
                               max_time - get_timestamp(excess_value))),
                      RSub(One, alpha))),
            RSub(RAdd(remapped_a.trend, remapped_b.trend),
                 RMul(RMul(get_value(excess_trend),
                           scale_one_minus_value(beta,
                               max_time - get_timestamp(excess_trend))),
                      RSub(One, beta))),
            max_time,
            min_or_merge(a.first_value, b.first_value),
            min_or_merge(a.first_trend, b.first_trend))

\* Mutant: refuses a state with a trend on either side of a merge across time.
HoltWithTime_merge_RefusesTrendOnA(a, b, alpha, beta) ==
    LET max_time == Max(a.timestamp, b.timestamp)
        remapped_a == HoltWithTime_remap(a, max_time, alpha, beta)
        remapped_b == HoltWithTime_remap(b, max_time, alpha, beta)
    IN  IF ~a.first_value.was \/ ~b.first_value.was
        THEN Ret(IF a.first_value.was THEN a ELSE b)
        ELSE IF ~b.first_trend.was /\ ~(a.first_trend.was /\ a.timestamp # b.timestamp)
        THEN IF ~a.first_trend.was
             THEN IF a.timestamp = b.timestamp
                  THEN Ret(HoltWithTime2(RAdd(a.value, b.value), a.timestamp))
                  ELSE IF remapped_a.exc # "none" THEN remapped_a
                  ELSE IF remapped_b.exc # "none" THEN remapped_b
                  ELSE Ret(HoltWithTime_merge_first_trend(
                               a, b, remapped_a.st, remapped_b.st, max_time, alpha))
             ELSE IF a.timestamp = b.timestamp
                  THEN Ret(HoltWithTime5(RAdd(a.value, RMul(alpha, b.value)),
                                         RAdd(a.trend, RMul(RMul(alpha, beta), b.value)),
                                         a.timestamp,
                                         a.first_value,
                                         a.first_trend))
                  ELSE IF remapped_a.exc # "none" THEN remapped_a
                  ELSE IF remapped_b.exc # "none" THEN remapped_b
                  ELSE Ret(HoltWithTime_merge_with_trend(
                               a, b, remapped_a.st, remapped_b.st, max_time, alpha, beta))
        ELSE Throw("logic_error")

HoltWithTime_merge(a, b, alpha, beta) ==
    LET max_time == Max(a.timestamp, b.timestamp)
        remapped_a == HoltWithTime_remap(a, max_time, alpha, beta)
        remapped_b == HoltWithTime_remap(b, max_time, alpha, beta)
    IN  IF ~a.first_value.was \/ ~b.first_value.was
        THEN Ret(IF a.first_value.was THEN a ELSE b)
        ELSE IF ~b.first_trend.was
        THEN IF ~a.first_trend.was
             THEN IF a.timestamp = b.timestamp
                  THEN Ret(HoltWithTime2(RAdd(a.value, b.value), a.timestamp))
                  ELSE IF remapped_a.exc # "none" THEN remapped_a
                  ELSE IF remapped_b.exc # "none" THEN remapped_b
                  ELSE Ret(HoltWithTime_merge_first_trend(
                               a, b, remapped_a.st, remapped_b.st, max_time, alpha))
             ELSE IF a.timestamp = b.timestamp
                  THEN Ret(HoltWithTime5(RAdd(a.value, RMul(alpha, b.value)),
                                         RAdd(a.trend, RMul(RMul(alpha, beta), b.value)),
                                         a.timestamp,
                                         a.first_value,
                                         a.first_trend))
                  ELSE IF remapped_a.exc # "none" THEN remapped_a
                  ELSE IF remapped_b.exc # "none" THEN remapped_b
                  ELSE Ret(HoltWithTime_merge_with_trend(
                               a, b, remapped_a.st, remapped_b.st, max_time, alpha, beta))
        ELSE Throw("logic_error")

HoltWithTime_add(s, new_value, new_timestamp, alpha, beta) ==
    HoltWithTime_merge(s, HoltWithTime2(new_value, new_timestamp), alpha, beta)

----------------------------------------------------------------------------
(* struct HoltWithTimeFillGaps (gaps are filled by the prediction)         *)

HoltFillGaps4(current_value, current_trend, current_timestamp, current_count) ==
    State(current_value, current_trend, current_timestamp, current_count,
          make_empty_optional, make_empty_optional)

HoltFillGaps2(current_value, current_timestamp) ==
    State(current_value, Zero, current_timestamp, 1,
          make_empty_optional, make_empty_optional)

HoltFillGaps_remap(s, current_time, alpha, beta) ==
    IF current_time < s.timestamp
    THEN Throw("logic_error")
    ELSE Ret(HoltFillGaps4(
                 RMul(s.value, scale_one_minus_value(alpha, current_time - s.timestamp)),
                 RMul(s.trend, scale_one_minus_value(beta, current_time - s.timestamp)),
                 current_time,
                 s.count))

HoltFillGaps_get(s, alpha, beta) == RAdd(s.value, s.trend)

RECURSIVE HoltFillGaps_merge(_, _, _, _)
RECURSIVE HoltFillGaps_add(_, _, _, _, _)
RECURSIVE HoltFillGaps_add_predict(_, _, _)
RECURSIVE HoltFillGaps_predict_loop(_, _, _, _)
RECURSIVE HoltFillGaps_predict_until(_, _, _, _)

\* Mutant: leaves the trend out of the new level.
HoltFillGaps_merge_LevelWithoutTrend(a, b, alpha, beta) ==
    IF a.count = 0 \/ b.count = 0
    THEN Ret(IF a.count = 0 THEN b ELSE a)
    ELSE IF b.count = 1
    THEN LET predicted_a == HoltFillGaps_predict_until(a, b.timestamp, alpha, beta)
         IN  IF predicted_a.exc # "none" THEN predicted_a
             ELSE IF predicted_a.st.count = 1
             THEN Ret(HoltFillGaps4(
                          RAdd(RMul(alpha, b.value),
                               RMul(RSub(One, alpha), predicted_a.st.value)),
                          RSub(b.value, a.value),
                          b.timestamp,
                          2))
             ELSE LET new_value ==
                          RAdd(RMul(alpha, b.value),
                               RMul(RSub(One, alpha), predicted_a.st.value))
                  IN  Ret(HoltFillGaps4(
                              new_value,
                              RAdd(RMul(beta, RSub(new_value, predicted_a.st.value)),
                                   RMul(RSub(One, beta), predicted_a.st.trend)),
                              b.timestamp,
                              a.count + 1))
    ELSE Throw("logic_error")

HoltFillGaps_merge(a, b, alpha, beta) ==
    IF a.count = 0 \/ b.count = 0
    THEN Ret(IF a.count = 0 THEN b ELSE a)
    ELSE IF b.count = 1
    THEN LET predicted_a == HoltFillGaps_predict_until(a, b.timestamp, alpha, beta)
         IN  IF predicted_a.exc # "none" THEN predicted_a
             ELSE IF predicted_a.st.count = 1
             THEN Ret(HoltFillGaps4(
                          RAdd(RMul(alpha, b.value),
                               RMul(RSub(One, alpha), predicted_a.st.value)),
                          RSub(b.value, a.value),
                          b.timestamp,
                          2))
             ELSE LET new_value ==
                          RAdd(RMul(alpha, b.value),
                               RMul(RSub(One, alpha),
                                    RAdd(predicted_a.st.value, predicted_a.st.trend)))
                  IN  Ret(HoltFillGaps4(
                              new_value,
                              RAdd(RMul(beta, RSub(new_value, predicted_a.st.value)),
                                   RMul(RSub(One, beta), predicted_a.st.trend)),
                              b.timestamp,
                              a.count + 1))
    ELSE Throw("logic_error")

\* Mutant: compares the timestamps of an empty state too.
HoltFillGaps_add_NoEmptyCheck(s, new_value, new_time, alpha, beta) ==
    IF new_time <= s.timestamp
    THEN Throw("logic_error")
    ELSE HoltFillGaps_merge(s, HoltFillGaps2(new_value, new_time), alpha, beta)

HoltFillGaps_add(s, new_value, new_time, alpha, beta) ==
    IF s.count > 0 /\ new_time <= s.timestamp
    THEN Throw("logic_error")
    ELSE HoltFillGaps_merge(s, HoltFillGaps2(new_value, new_time), alpha, beta)

\* The wrap check of new_time cannot fire: timestamps are far below 2^64.
HoltFillGaps_add_predict(s, alpha, beta) ==
    IF s.count = 0
    THEN Throw("logic_error")
    ELSE LET new_time == s.timestamp + 1
         IN  IF new_time < s.timestamp
             THEN Throw("logic_error")
             ELSE HoltFillGaps_add(s, HoltFillGaps_get(s, alpha, beta), new_time, alpha, beta)

HoltFillGaps_predict_loop(copy_of_me, current_time, alpha, beta) ==
    IF copy_of_me.timestamp + 1 < current_time
    THEN LET next == HoltFillGaps_add_predict(copy_of_me, alpha, beta)
         IN  IF next.exc # "none" THEN next
             ELSE HoltFillGaps_predict_loop(next.st, current_time, alpha, beta)
    ELSE Ret(copy_of_me)

HoltFillGaps_predict_until(s, current_time, alpha, beta) ==
    IF current_time <= s.timestamp
    THEN Throw("logic_error")
    ELSE HoltFillGaps_predict_loop(s, current_time, alpha, beta)

----------------------------------------------------------------------------
(* The aggregate-function bindings: AggregateFunctionExponentialSmoothing- *)
(* Alpha<Aggregator, have_time_column>, its subclass ...AlphaFillGaps,     *)
(* AggregateFunctionHolt<Aggregator, have_time_column> and its subclass    *)
(* AggregateFunctionHoltFillGaps.  A flavor names the aggregator struct.   *)

SimpleFlavors == {"Alpha", "AlphaWithTime", "AlphaFillGaps"}
HoltFlavors == {"Holt", "HoltWithTime", "HoltFillGaps"}
Flavors == SimpleFlavors \cup HoltFlavors
FillGapsFlavors == {"AlphaFillGaps", "HoltFillGaps"}
CountFlavors == {"Alpha", "Holt"}

\* The template argument have_time_column of each registered instantiation.
have_time_column(f) == f \notin CountFlavors

\* add of the bindings: this->data(place).add(value[, timestamp], alpha[, beta]).
Binding_add(f, s, value, timestamp, alpha, beta) ==
    CASE f = "Alpha" -> Alpha_add(s, value, alpha)
      [] f = "AlphaWithTime" -> AlphaWithTime_add(s, value, timestamp, alpha)
      [] f = "AlphaFillGaps" -> AlphaFillGaps_add(s, value, timestamp, alpha)
      [] f = "Holt" -> Holt_add(s, value, alpha, beta)
      [] f = "HoltWithTime" -> HoltWithTime_add(s, value, timestamp, alpha, beta)
      [] f = "HoltFillGaps" -> HoltFillGaps_add(s, value, timestamp, alpha, beta)

\* The member merge of each struct: *this = merge(*this, other, ...).
Core_merge(f, a, b, alpha, beta) ==
    CASE f = "Alpha" -> Alpha_merge(a, b, alpha)
      [] f = "AlphaWithTime" -> AlphaWithTime_merge(a, b, alpha)
      [] f = "AlphaFillGaps" -> AlphaFillGaps_merge(a, b, alpha)
      [] f = "Holt" -> Holt_merge(a, b, alpha, beta)
      [] f = "HoltWithTime" -> HoltWithTime_merge(a, b, alpha, beta)
      [] f = "HoltFillGaps" -> HoltFillGaps_merge(a, b, alpha, beta)

Core_remap(f, s, target, alpha, beta) ==
    CASE f = "Alpha" -> Alpha_remap(s, target, alpha)
      [] f = "AlphaWithTime" -> AlphaWithTime_remap(s, target, alpha)
      [] f = "AlphaFillGaps" -> AlphaFillGaps_remap(s, target, alpha)
      [] f = "Holt" -> Holt_remap(s, target, alpha, beta)
      [] f = "HoltWithTime" -> HoltWithTime_remap(s, target, alpha, beta)
      [] f = "HoltFillGaps" -> HoltFillGaps_remap(s, target, alpha, beta)

\* C++ exception classes: the classes a handler of each type catches.
\* std::invalid_argument derives from std::logic_error, not the reverse.
CaughtBy(handler) ==
    CASE handler = "invalid_argument" -> {"invalid_argument"}
      [] handler = "logic_error" -> {"logic_error", "invalid_argument"}

\* try { ... } catch (const std::invalid_argument & e) { throw Exception(INCORRECT_DATA) }
CatchInvalidArgument(r) ==
    IF r.exc \in CaughtBy("invalid_argument") THEN Throw("INCORRECT_DATA") ELSE r

\* merge of the bindings.  The FillGaps subclass of the simple binding reads its
\* own private member alpha, which no constructor sets: own_alpha is that value.
Binding_merge(f, a, b, alpha, beta, own_alpha) ==
    CASE f = "AlphaFillGaps" -> CatchInvalidArgument(AlphaFillGaps_merge(a, b, own_alpha))
      [] f = "HoltFillGaps" -> CatchInvalidArgument(HoltFillGaps_merge(a, b, alpha, beta))
      [] OTHER -> Core_merge(f, a, b, alpha, beta)

\* x < y for rationals.
RLess(x, y) == x[1] * y[2] < y[1] * x[2]

\* The classes AggregateFunctionHoltWinters, ...WithTime and ...FillGaps, each
\* registered for HoltWintersType Multiply and Additional.
HoltWintersFlavors == {"HoltWinters", "HoltWintersWithTime", "HoltWintersFillGaps"}

\* The members a constructor sets.
Members(al, be, ga, sc) == [alpha |-> al, beta |-> be, gamma |-> ga, seasons_count |-> sc]

\* FieldVisitorConvertToNumber<UInt32> on a parameter holding a natural number.
ConvertToUInt32(x) == x[1] \div x[2]

\* The constructors: params is the Array of parameters of the function.
Alpha_construct(params) ==
    IF Len(params) # 1 THEN Throw("NUMBER_OF_ARGUMENTS_DOESNT_MATCH")
    ELSE IF RLess(params[1], Zero) THEN Throw("ILLEGAL_VALUE_OF_ARGUMENT")
    ELSE IF RLess(One, params[1]) THEN Throw("ILLEGAL_VALUE_OF_ARGUMENT")
    ELSE Ret(Members(params[1], Zero, Zero, 0))

\* Mutant: never compares beta with one.
Holt_construct_NoBetaUpperCheck(params) ==
    IF Len(params) # 2 THEN Throw("NUMBER_OF_ARGUMENTS_DOESNT_MATCH")
    ELSE IF RLess(params[1], Zero) THEN Throw("ILLEGAL_VALUE_OF_ARGUMENT")
    ELSE IF RLess(params[2], Zero) THEN Throw("ILLEGAL_VALUE_OF_ARGUMENT")
    ELSE IF RLess(One, params[1]) THEN Throw("ILLEGAL_VALUE_OF_ARGUMENT")
    ELSE Ret(Members(params[1], params[2], Zero, 0))

Holt_construct(params) ==
    IF Len(params) # 2 THEN Throw("NUMBER_OF_ARGUMENTS_DOESNT_MATCH")
    ELSE IF RLess(params[1], Zero) THEN Throw("ILLEGAL_VALUE_OF_ARGUMENT")
    ELSE IF RLess(params[2], Zero) THEN Throw("ILLEGAL_VALUE_OF_ARGUMENT")
    ELSE IF RLess(One, params[1]) THEN Throw("ILLEGAL_VALUE_OF_ARGUMENT")
    ELSE IF RLess(One, params[2]) THEN Throw("ILLEGAL_VALUE_OF_ARGUMENT")
    ELSE Ret(Members(params[1], params[2], Zero, 0))

HoltWinters_construct(params) ==
    IF Len(params) # 4 THEN Throw("NUMBER_OF_ARGUMENTS_DOESNT_MATCH")
    ELSE IF RLess(params[1], Zero) THEN Throw("ILLEGAL_VALUE_OF_ARGUMENT")
    ELSE IF RLess(params[2], Zero) THEN Throw("ILLEGAL_VALUE_OF_ARGUMENT")
    ELSE IF RLess(params[3], Zero) THEN Throw("ILLEGAL_VALUE_OF_ARGUMENT")
    ELSE IF RLess(One, params[1]) THEN Throw("ILLEGAL_VALUE_OF_ARGUMENT")
    ELSE IF RLess(One, params[2]) THEN Throw("ILLEGAL_VALUE_OF_ARGUMENT")
    ELSE IF RLess(One, params[3]) THEN Throw("ILLEGAL_VALUE_OF_ARGUMENT")
    ELSE IF ConvertToUInt32(params[4]) = 0 THEN Throw("ILLEGAL_VALUE_OF_ARGUMENT")
    ELSE Ret(Members(params[1], params[2], params[3], ConvertToUInt32(params[4])))

Binding_construct(f, params) ==
    IF f \in SimpleFlavors THEN Alpha_construct(params)
    ELSE IF f \in HoltFlavors THEN Holt_construct(params)
    ELSE HoltWinters_construct(params)

\* serialize writes a sequence of raw values; deserialize reads them back, in
\* the order of the code, into the state at `place`.  A member the aggregator
\* struct does not declare is the default field of the record.
Alpha_serialize(f, s) ==
    IF have_time_column(f)
    THEN <<s.value, s.timestamp,
           s.first_value.value, s.first_value.timestamp, s.first_value.was>>
    ELSE <<s.value, s.count>>

Alpha_deserialize(f, place, buf) ==
    IF have_time_column(f)
    THEN [place EXCEPT !.value = buf[1],
                       !.timestamp = buf[2],
                       !.first_value = [value |-> buf[3], timestamp |-> buf[4], was |-> buf[5]]]
    ELSE [place EXCEPT !.value = buf[1], !.count = buf[2]]

Holt_serialize(f, s) ==
    IF have_time_column(f)
    THEN <<s.value, s.trend, s.timestamp,
           s.first_value.value, s.first_value.timestamp, s.first_value.was,
           s.first_trend.value, s.first_trend.timestamp, s.first_trend.was>>
    ELSE <<s.value, s.trend, s.count, s.first_value, s.first_trend>>

Holt_deserialize(f, place, buf) ==
    IF have_time_column(f)
    THEN [place EXCEPT !.value = buf[1],
                       !.trend = buf[2],
                       !.timestamp = buf[3],
                       !.first_value = [value |-> buf[4], timestamp |-> buf[5], was |-> buf[6]],
                       !.first_trend = [value |-> buf[7], timestamp |-> buf[8], was |-> buf[9]]]
    ELSE [place EXCEPT !.value = buf[1],
                       !.trend = buf[2],
                       !.count = buf[3],
                       !.first_value = buf[4],
                       !.first_trend = buf[5]]

Binding_serialize(f, s) ==
    IF f \in SimpleFlavors THEN Alpha_serialize(f, s) ELSE Holt_serialize(f, s)

Binding_deserialize(f, place, buf) ==
    IF f \in SimpleFlavors THEN Alpha_deserialize(f, place, buf)
    ELSE Holt_deserialize(f, place, buf)

----------------------------------------------------------------------------
(* The state machine: one aggregation state `acc` of one aggregate         *)
(* function, driven by the engine through add, merge, remap (at            *)
(* finalisation), serialize and deserialize.                               *)

MaxTime == 2
MaxRows == 3

Values == {RInt(10), RInt(20)}
Times == 0 .. MaxTime
Rows == Values \X Times
Alphas == {Zero, Third, Half, One}
HoltParams == {<<Half, Half>>, <<Third, One>>}
\* What the never-initialised member alpha of the FillGaps binding may hold.
IndeterminateDoubles == {Zero, Two}
RemapTargets == 0 .. (MaxTime + 1)

VARIABLES
    flavor,   \* the aggregator struct of the function
    alpha,    \* the parameters validated by the constructor
    beta,
    acc,      \* the aggregation state at `place`
    rows,     \* history: the rows folded into acc (a bag, kept sorted)
    merged,   \* history: some merge has changed acc
    buf,      \* the bytes written by the last serialize, not yet read
    last,     \* the last call: its operands, the state before it, its outcome
    gamma,          \* the further parameters of a Holt-Winters function
    seasons_count,
    to        \* the result column insertResultInto appends to

vars == <<precision, flavor, alpha, beta, gamma, seasons_count,
          acc, rows, merged, buf, to, last>>

\* The result column of the functions whose results are not followed here.
NoColumn == <<>>

NoRow == <<Zero, 0>>
NoBuf == <<>>

Call(op, row, rhs, target, out) ==
    [op |-> op, row |-> row, rhs |-> rhs, target |-> target, out |-> out]

\* Rows are ordered by timestamp, then by value (an order for the bag only).
RowLeq(r1, r2) ==
    \/ r1[2] < r2[2]
    \/ r1[2] = r2[2] /\ r1[1][1] * r2[1][2] <= r2[1][1] * r1[1][2]

RECURSIVE Insert(_, _)
Insert(seq, r) ==
    IF seq = <<>> THEN <<r>>
    ELSE IF RowLeq(r, Head(seq)) THEN <<r>> \o seq
    ELSE <<Head(seq)>> \o Insert(Tail(seq), r)

RECURSIVE InsertAll(_, _)
InsertAll(seq, more) ==
    IF more = <<>> THEN seq ELSE InsertAll(Insert(seq, Head(more)), Tail(more))

\* The state built from `s` by adding the rows of seq in order through the
\* binding; an add that throws leaves the state as it was.
RECURSIVE AddAll(_, _, _, _, _)
AddAll(f, s, seq, al, be) ==
    IF seq = <<>> THEN s
    ELSE LET r == Binding_add(f, s, Head(seq)[1], Head(seq)[2], al, be)
         IN  AddAll(f, IF r.exc = "none" THEN r.st ELSE s, Tail(seq), al, be)

\* Every add of seq succeeds.
RECURSIVE AllAddsSucceed(_, _, _, _, _)
AllAddsSucceed(f, s, seq, al, be) ==
    IF seq = <<>> THEN TRUE
    ELSE LET r == Binding_add(f, s, Head(seq)[1], Head(seq)[2], al, be)
         IN  r.exc = "none" /\ AllAddsSucceed(f, r.st, Tail(seq), al, be)

\* The inputs of floating-point behaviours are numbers of `Precision` bits.
Precision == 4
FloatValues == {RInt(Pow2(Precision) - 1), RInt(Pow2(Precision) - 3)}
FloatAlphas == {R(k, Pow2(Precision)) : k \in 0 .. Pow2(Precision)}
FloatBetas == {R(3, Pow2(Precision)), Half}

\* The rows an add may carry: a binding without time column reads no timestamp.
RowsOf(f) ==
    IF have_time_column(f) THEN Rows
    ELSE (IF precision = 0 THEN Values ELSE FloatValues) \X {0}

\* The shapes of the other operand of a merge: empty, single-valued, multi-valued.
RhsLengths == {0, 1, 2}

RowSeqs(f, n) == UNION {[1 .. k -> RowsOf(f)] : k \in {l \in RhsLengths : l <= n}}

Init ==
    /\ precision = 0
    /\ flavor \in Flavors
    /\ \/ flavor \in SimpleFlavors /\ alpha \in Alphas /\ beta = Zero
       \/ flavor \in HoltFlavors /\ \E p \in HoltParams : alpha = p[1] /\ beta = p[2]
    /\ gamma = Zero
    /\ seasons_count = 0
    /\ to = NoColumn
    /\ acc = Empty
    /\ rows = <<>>
    /\ merged = FALSE
    /\ buf = NoBuf
    /\ last = Call("init", NoRow, Empty, 0, Ret(Empty))

\* The count-indexed functions, in real and in floating-point arithmetic.
InitFloat ==
    /\ precision \in {0, Precision}
    /\ flavor \in CountFlavors
    /\ alpha \in (IF precision = 0 THEN Alphas ELSE FloatAlphas)
    /\ beta \in (IF flavor \in SimpleFlavors THEN {Zero}
                 ELSE IF precision = 0 THEN {Half, One} ELSE FloatBetas)
    /\ gamma = Zero
    /\ seasons_count = 0
    /\ to = NoColumn
    /\ acc = Empty
    /\ rows = <<>>
    /\ merged = FALSE
    /\ buf = NoBuf
    /\ last = Call("init", NoRow, Empty, 0, Ret(Empty))

\* The aggregation goes on: no call has thrown (an exception aborts the
\* enclosing aggregation), and the state has not been finalised or shipped.
Aggregating == last.op \in {"init", "add", "merge"} /\ last.out.exc = "none"

\* Mutant: the state is overwritten whatever the static merge did.
member_merge_AssignsAnyway(s, r) == r.st

\* The member merge, which add calls too: *this = merge(*this, other, ...).
\* r is the outcome of the static merge; when that throws, the assignment
\* is never reached.
member_merge(s, r) == IF r.exc = "none" THEN r.st ELSE s

\* IAggregateFunction::add on one row.
Add ==
    /\ Aggregating
    /\ Len(rows) < MaxRows
    /\ \E row \in RowsOf(flavor) :
       \E r \in {Binding_add(flavor, acc, row[1], row[2], alpha, beta)} :
             /\ acc' = member_merge(acc, r)
             /\ rows' = IF r.exc = "none" THEN Insert(rows, row) ELSE rows
             /\ last' = Call("add", row, Empty, 0, r)
             /\ UNCHANGED <<precision, flavor, alpha, beta, gamma, seasons_count, to, merged, buf>>

\* IAggregateFunction::merge of another partial state, itself built by adds.
Merge ==
    /\ Aggregating
    /\ \E rhs_rows \in RowSeqs(flavor, MaxRows - Len(rows)) :
       \E own_alpha \in (IF flavor = "AlphaFillGaps" THEN IndeterminateDoubles ELSE {alpha}) :
       \E rhs \in {AddAll(flavor, Empty, rhs_rows, alpha, beta)} :
       \E r \in {Binding_merge(flavor, acc, rhs, alpha, beta, own_alpha)} :
             /\ AllAddsSucceed(flavor, Empty, rhs_rows, alpha, beta)
             /\ acc' = member_merge(acc, r)
             /\ rows' = IF r.exc = "none" THEN InsertAll(rows, rhs_rows) ELSE rows
             /\ merged' = (merged \/ (r.exc = "none" /\ rhs_rows # <<>>))
             /\ last' = Call("merge", NoRow, rhs, 0, r)
             /\ UNCHANGED <<precision, flavor, alpha, beta, gamma, seasons_count, to, buf>>

\* remap (a const method) of the struct, pulled at finalisation.
Remap ==
    /\ Aggregating
    /\ \E target \in RemapTargets :
        /\ last' = Call("remap", NoRow, Empty, target,
                        Core_remap(flavor, acc, target, alpha, beta))
        /\ UNCHANGED <<precision, flavor, alpha, beta, gamma, seasons_count, to, acc, rows, merged, buf>>

\* IAggregateFunction::serialize of the state into a buffer, to ship it.
Serialize ==
    /\ Aggregating
    /\ buf' = Binding_serialize(flavor, acc)
    /\ last' = Call("serialize", NoRow, Empty, 0, Ret(acc))
    /\ UNCHANGED <<precision, flavor, alpha, beta, gamma, seasons_count, to, acc, rows, merged>>

\* IAggregateFunction::deserialize of the buffer into a freshly created state.
Deserialize ==
    /\ buf # NoBuf
    /\ last' = Call("deserialize", NoRow, Empty, 0,
                    Ret(Binding_deserialize(flavor, Empty, buf)))
    /\ buf' = NoBuf
    /\ UNCHANGED <<precision, flavor, alpha, beta, gamma, seasons_count, to, acc, rows, merged>>

Next == Add \/ Merge \/ Remap \/ Serialize \/ Deserialize

Spec == Init /\ [][Next]_vars

SpecFloat == InitFloat /\ [][Next]_vars

----------------------------------------------------------------------------
(* The numeric kernel on its own: scale and scale_one_minus_value called   *)
(* on bounded inputs, in real arithmetic.                                  *)

MaxCount == 8
ScaleBases == {Zero, Third, Half, R(2, 3), One, R(3, 2), R(-1, 2)}

InitScale ==
    /\ precision = 0
    /\ flavor = "Alpha"
    /\ alpha = Zero
    /\ beta = Zero
    /\ gamma = Zero
    /\ seasons_count = 0
    /\ to = NoColumn
    /\ acc = Empty
    /\ rows = <<>>
    /\ merged = FALSE
    /\ buf = NoBuf
    /\ last = Call("init", NoRow, Empty, 0, Ret(Empty))

\* scale(value, count); the call keeps value in row[1] and count in target.
Scale ==
    \E value \in ScaleBases, count \in 0 .. MaxCount :
        /\ last' = Call("scale", <<value, 0>>, Empty, count, Ret(scale(value, count)))
        /\ UNCHANGED <<precision, flavor, alpha, beta, gamma, seasons_count, to, acc, rows, merged, buf>>

ScaleOneMinusValue ==
    \E value \in ScaleBases, count \in 0 .. MaxCount :
        /\ last' = Call("scale_one_minus_value", <<value, 0>>, Empty, count,
                        Ret(scale_one_minus_value(value, count)))
        /\ UNCHANGED <<precision, flavor, alpha, beta, gamma, seasons_count, to, acc, rows, merged, buf>>

NextScale == Scale \/ ScaleOneMinusValue

SpecScale == InitScale /\ [][NextScale]_vars

\* The two combinators of DataHelper on optional (value, timestamp) markers,
\* applied to every pair of markers; the call keeps a in row, b in rhs.
MarkerValues == {RInt(10), RInt(20), RInt(-10)}
Markers == {make_empty_optional} \cup {make_optional_timestamped_value(v, t) : v \in MarkerValues, t \in Times}

MinOrMerge ==
    \E a \in Markers, b \in Markers :
        /\ last' = Call("min_or_merge", a, b, 0, Ret(min_or_merge(a, b)))
        /\ UNCHANGED <<precision, flavor, alpha, beta, gamma, seasons_count, to, acc, rows, merged, buf>>

MaxOrEmpty ==
    \E a \in Markers, b \in Markers :
        /\ last' = Call("max_or_empty", a, b, 0, Ret(max_or_empty(a, b)))
        /\ UNCHANGED <<precision, flavor, alpha, beta, gamma, seasons_count, to, acc, rows, merged, buf>>

NextMarkers == MinOrMerge \/ MaxOrEmpty

SpecMarkers == InitScale /\ [][NextMarkers]_vars

----------------------------------------------------------------------------
(* The aggregate function objects: construction from the parameters of the *)
(* function, and the result column of the Holt-Winters functions.          *)

MaxParams == 5
MaxResultRows == 2

ParamValues == {R(-1, 2), Zero, Half, One, RInt(2)}

RECURSIVE SeqsUpTo(_, _)
SeqsUpTo(S, n) ==
    IF n = 0 THEN {<<>>}
    ELSE SeqsUpTo(S, n - 1) \cup {Append(q, x) : q \in {p \in SeqsUpTo(S, n - 1) : Len(p) = n - 1}, x \in S}

\* The parameter arrays a query can hold; the seasons count of a Holt-Winters
\* function is written as a natural number.
IsNatural(x) == x[2] = 1 /\ x[1] >= 0
ParamLists(f) ==
    {p \in SeqsUpTo(ParamValues, MaxParams) : (f \in HoltWintersFlavors /\ Len(p) >= 4) => IsNatural(p[4])}

\* The columns: a vector of Float64, a tuple of columns, an array of a column.
ColumnVector == [kind |-> "Vector", data |-> <<>>]
ColumnTuple(columns) == [kind |-> "Tuple", columns |-> columns]

\* createResultType: Tuple(`next value` Float64, trend Float64, seasons Float64),
\* and the column the engine creates for that type.
HoltWinters_createResultType == <<"Float64", "Float64", "Float64">>
HoltWinters_createColumn == ColumnTuple([i \in 1 .. Len(HoltWinters_createResultType) |-> ColumnVector])

push_back(column, x) == [column EXCEPT !.data = Append(@, x)]

RECURSIVE push_back_all(_, _)
push_back_all(column, xs) ==
    IF xs = <<>> THEN column ELSE push_back_all(push_back(column, Head(xs)), Tail(xs))

\* The body of insertResultInto once its casts have given it the three
\* Float64 columns: one push of data.get(), one of data.trend, and one push of
\* data.getSeason(i) for each i < seasons_count.
HoltWinters_pushes(column, level, trend, seasons) ==
    ColumnTuple(<<push_back(column.columns[1], level), push_back(column.columns[2], trend), push_back_all(column.columns[3], seasons)>>)

\* insertResultInto casts `to` to ColumnArray and its data to ColumnTuple.  On
\* a column that is no ColumnArray, assert_cast throws LOGICAL_ERROR in a
\* build that checks casts and is a static_cast otherwise: the behaviour is
\* then undefined, and is followed here as either outcome, the second being
\* the pushes the code goes on to make.
HoltWinters_insertResultInto(column, level, trend, seasons) ==
    IF column.kind = "Array" THEN {[exc |-> "none", to |-> [column EXCEPT !.data = HoltWinters_pushes(@, level, trend, seasons)]]}
    ELSE {[exc |-> "LOGICAL_ERROR", to |-> column], [exc |-> "none", to |-> HoltWinters_pushes(column, level, trend, seasons)]}

\* The values of the state a result is read from.
ResultValues == {RInt(10), RInt(20)}

InitFunction ==
    /\ precision = 0
    /\ flavor \in Flavors \cup HoltWintersFlavors
    /\ alpha = Zero
    /\ beta = Zero
    /\ gamma = Zero
    /\ seasons_count = 0
    /\ to = NoColumn
    /\ acc = Empty
    /\ rows = <<>>
    /\ merged = FALSE
    /\ buf = NoBuf
    /\ last = Call("registered", NoRow, Empty, 0, Ret(Empty))

\* The factory's creator function: the constructor, and for a constructed
\* Holt-Winters function the result column of createResultType.
Construct ==
    /\ last.op = "registered"
    /\ \E params \in ParamLists(flavor) :
       \E r \in {Binding_construct(flavor, params)} :
          /\ last' = Call("construct", params, Empty, 0, [exc |-> r.exc, st |-> Empty])
          /\ alpha' = IF r.exc = "none" THEN r.st.alpha ELSE alpha
          /\ beta' = IF r.exc = "none" THEN r.st.beta ELSE beta
          /\ gamma' = IF r.exc = "none" THEN r.st.gamma ELSE gamma
          /\ seasons_count' = IF r.exc = "none" THEN r.st.seasons_count ELSE seasons_count
          /\ to' = IF r.exc = "none" /\ flavor \in HoltWintersFlavors THEN HoltWinters_createColumn ELSE to
          /\ UNCHANGED <<precision, flavor, acc, rows, merged, buf>>

\* IAggregateFunction::insertResultInto of a Holt-Winters function.
InsertResultInto ==
    /\ flavor \in HoltWintersFlavors
    /\ last.op \in {"construct", "insertResultInto"}
    /\ last.out.exc = "none"
    /\ last.target < MaxResultRows
    /\ \E level \in ResultValues, trend \in {Zero}, seasons \in [1 .. seasons_count -> {One}] :
       \E r \in HoltWinters_insertResultInto(to, level, trend, seasons) :
          /\ to' = r.to
          /\ last' = Call("insertResultInto", NoRow, Empty, last.target + 1, [exc |-> r.exc, st |-> Empty])
          /\ UNCHANGED <<precision, flavor, alpha, beta, gamma, seasons_count, acc, rows, merged, buf>>

NextFunction == Construct \/ InsertResultInto

SpecFunction == InitFunction /\ [][NextFunction]_vars

----------------------------------------------------------------------------
(* Properties.  `last` holds the operands and the outcome of the call just *)
(* made; in a step, the unprimed acc is the state the call was made on.    *)

Succeeded(call) == call.out.exc = "none"

PermutationsOf(seq) ==
    {[i \in 1 .. Len(seq) |-> seq[p[i]]] : p \in Permutations(1 .. Len(seq))}

\* s after k calls of add_predict.
RECURSIVE AddPredictTimes(_, _, _)
AddPredictTimes(s, k, al) ==
    IF k = 0 THEN Ret(s)
    ELSE LET r == AlphaFillGaps_add_predict(s, al)
         IN  IF r.exc # "none" THEN r ELSE AddPredictTimes(r.st, k - 1, al)

\* C1: for ExponentiallySmoothedAlphaWithTime, the merge of two states built
\* from rows equals, in value, timestamp and first_value, the state got by
\* adding all those rows to one empty state in any order, and the merge with
\* the operands exchanged gives the same state.
C1_MergeEqualsSequentialAdd ==
    [][(flavor = "AlphaWithTime" /\ last'.op = "merge") =>
          /\ Succeeded(last')
          /\ AlphaWithTime_merge(last'.rhs, acc, alpha) = Ret(acc')
          /\ \A perm \in PermutationsOf(rows') :
                 AddAll("AlphaWithTime", Empty, perm, alpha, beta) = acc']_vars

\* Two multi-row blocks with interleaved timestamps have been merged.
C1_Witness ==
    /\ flavor = "AlphaWithTime"
    /\ last.op = "merge"
    /\ Succeeded(last)
    /\ Len(rows) = 3
    /\ last.rhs.first_value.was
    /\ last.rhs.first_value.timestamp < last.rhs.timestamp
    /\ acc.first_value.timestamp < last.rhs.first_value.timestamp
    /\ acc.timestamp = last.rhs.timestamp

\* C2: identity law.  In every flavor a merge in which the state or the other
\* operand is empty succeeds and leaves the non-empty one, unchanged in every
\* field, as the state.
C2_MergeIdentity ==
    [][(last'.op = "merge" /\ (acc = Empty \/ last'.rhs = Empty)) =>
          /\ Succeeded(last')
          /\ acc' = IF acc = Empty THEN last'.rhs ELSE acc]_vars

\* An empty state has taken over a multi-valued operand.
C2_Witness ==
    /\ last.op = "merge"
    /\ flavor = "HoltFillGaps"
    /\ Len(rows) = 2
    /\ merged
    /\ acc = last.rhs
    /\ acc.count = 2

\* C3: for the gap-filling simple accumulator, add(x, t2) on a non-empty state
\* at timestamp t < t2 gives the state (value, timestamp, count) that
\* t2 - t - 1 calls of add_predict followed by add(x, t2) give; with
\* alpha = 1/2, add(10, 0); add(20, 2) gives value 15 at timestamp 2.
C3_GapFilledByPrediction ==
    [][(flavor = "AlphaFillGaps" /\ last'.op = "add"
          /\ acc.count > 0 /\ last'.row[2] > acc.timestamp) =>
          LET predicted == AddPredictTimes(acc, last'.row[2] - acc.timestamp - 1, alpha)
          IN  /\ predicted.exc = "none"
              /\ Succeeded(last')
              /\ last'.out = AlphaFillGaps_add(predicted.st, last'.row[1], last'.row[2], alpha)
              /\ acc' = last'.out.st
              /\ (alpha = Half /\ acc = AlphaFillGaps2(RInt(10), 0)
                    /\ last'.row = <<RInt(20), 2>>)
                 => (acc'.value = RInt(15) /\ acc'.timestamp = 2)]_vars

\* add(10, 0); add(20, 2) with alpha = 1/2.
C3_Witness ==
    /\ flavor = "AlphaFillGaps"
    /\ alpha = Half
    /\ last.op = "add"
    /\ last.row = <<RInt(20), 2>>
    /\ rows = <<<<RInt(10), 0>>, <<RInt(20), 2>>>>
    /\ ~merged
    /\ acc.value = RInt(15)
    /\ acc.timestamp = 2

\* C4: serialization round trip.  Deserializing what serialize wrote into a
\* freshly constructed state gives a state equal to the serialized one in
\* every field.
C4_RoundTrip ==
    last.op = "deserialize" => last.out.st = acc

\* C5: when merge of a gap-filling binding fails, the failure that reaches the
\* engine is INCORRECT_DATA.
C5_FillGapsMergeReportsIncorrectData ==
    (flavor \in FillGapsFlavors /\ last.op = "merge" /\ ~Succeeded(last))
        => last.out.exc = "INCORRECT_DATA"

\* C6 as stated: for ExponentiallySmoothedAlphaWithTime and HoltWithTime every
\* merge of two states built by add succeeds.
C6_TimeIndexedMergeAlwaysSucceeds ==
    (flavor \in {"AlphaWithTime", "HoltWithTime"} /\ last.op = "merge")
        => Succeeded(last)

\* C6 amended: for ExponentiallySmoothedAlphaWithTime every merge succeeds; for
\* HoltWithTime merge(a, b) succeeds exactly when a is empty or b has no
\* established trend, whatever the order of the timestamps.
C6_TimeIndexedMergeSucceedsUnlessRhsTrend ==
    [][(last'.op = "merge") =>
          /\ flavor = "AlphaWithTime" => Succeeded(last')
          /\ flavor = "HoltWithTime" =>
                (Succeeded(last') <=>
                    (~acc.first_value.was \/ ~last'.rhs.first_trend.was))]_vars

\* A single older value has been merged into a HoltWithTime state with a trend.
C6_Witness ==
    /\ flavor = "HoltWithTime"
    /\ last.op = "merge"
    /\ Succeeded(last)
    /\ last.rhs.first_value.was
    /\ last.rhs.timestamp < acc.timestamp
    /\ acc.first_trend.was
    /\ Len(rows) = 3

\* C7: in the flavors with a count field, a state built from empty by n
\* successful adds has count = n, and count = 0 only before the first add.
C7_CountIsNumberOfAdds ==
    (flavor \in CountFlavors \cup FillGapsFlavors /\ ~merged)
        => acc.count = Len(rows)

\* C8: add(value, t) of a gap-filling accumulator fails exactly when the state
\* is non-empty and t <= its timestamp; on an empty state it succeeds.
C8_FillGapsAddMonotonic ==
    [][(flavor \in FillGapsFlavors /\ last'.op = "add") =>
          /\ ~Succeeded(last') <=> (acc.count > 0 /\ last'.row[2] <= acc.timestamp)
          /\ ~Succeeded(last') => acc' = acc]_vars

\* An add at the state's own timestamp has been refused.
C8_Witness ==
    /\ flavor = "HoltFillGaps"
    /\ last.op = "add"
    /\ ~Succeeded(last)
    /\ acc.count = 2
    /\ last.row[2] = acc.timestamp

\* C9: count-indexed simple merge(a, b) of two non-empty states: with
\* b.count = 1 the result has value alpha*b.value + (1-alpha)*a.value and count
\* a.count + 1; with b.count > 1 it fails, for every a.count >= 1.
C9_AlphaMergeSingleOrFail ==
    [][(flavor = "Alpha" /\ last'.op = "merge"
          /\ acc.count >= 1 /\ last'.rhs.count >= 1) =>
          IF last'.rhs.count = 1
          THEN /\ Succeeded(last')
               /\ acc'.value = RAdd(RMul(alpha, last'.rhs.value),
                                    RMul(RSub(One, alpha), acc.value))
               /\ acc'.count = acc.count + 1
          ELSE /\ ~Succeeded(last')
               /\ acc' = acc]_vars

\* A two-valued block has been refused by a single-valued state.
C9_Witness ==
    /\ flavor = "Alpha"
    /\ last.op = "merge"
    /\ ~Succeeded(last)
    /\ acc.count = 1
    /\ last.rhs.count = 2

\* The reference point remap compares its target with.
Reference(f, s) == IF f \in CountFlavors THEN s.count ELSE s.timestamp

\* C10: in every flavor remap fails exactly when its target is less than the
\* state's reference point (count or timestamp).
C10_RemapBackwardsFails ==
    last.op = "remap" => (~Succeeded(last) <=> last.target < Reference(flavor, acc))

\* A remap to an earlier timestamp has been refused.
C10_Witness ==
    /\ flavor = "HoltFillGaps"
    /\ last.op = "remap"
    /\ ~Succeeded(last)
    /\ acc.timestamp = 2
    /\ last.target = 1

----------------------------------------------------------------------------
\* The state is that of exactly the adds of `rows`, the last of them just made.
BuiltByAdds(n) ==
    /\ ~merged
    /\ last.op = "add"
    /\ Succeeded(last)
    /\ Len(rows) = n

\* |x - y| <= k * 2^(-precision) * |y|, for rationals x and y.
WithinRoundoffs(x, y, k) ==
    Abs(x[1] * y[2] - y[1] * x[2]) * Pow2(precision) <= k * Abs(y[1]) * x[2]

\* C11 as stated: adding x twice to an empty count-indexed simple accumulator
\* and reading get(alpha) yields exactly x, for every alpha.
C11_SameValueTwiceReadsExactly ==
    (flavor = "Alpha" /\ BuiltByAdds(2) /\ rows[1] = rows[2])
        => Alpha_get(acc, alpha) = rows[1][1]

\* C11 amended: the value read is x in real arithmetic and for alpha in
\* {0, 1/2, 1}; in floating point it is within 4 units of roundoff of x.
C11_SameValueTwiceWithinRounding ==
    (flavor = "Alpha" /\ BuiltByAdds(2) /\ rows[1] = rows[2])
        => /\ precision = 0 => Alpha_get(acc, alpha) = rows[1][1]
           /\ alpha \in {Zero, Half, One} => Alpha_get(acc, alpha) = rows[1][1]
           /\ WithinRoundoffs(Alpha_get(acc, alpha), rows[1][1], 4)

\* The same value has been added twice in floating point and reads differently.
C11_Witness ==
    /\ flavor = "Alpha"
    /\ precision > 0
    /\ BuiltByAdds(2)
    /\ rows[1] = rows[2]
    /\ acc.count = 2
    /\ Alpha_get(acc, alpha) # rows[1][1]

\* C12: count-indexed Holt.  The first add(x) on the empty state leaves count 1,
\* value x and trend 0; the second add(y) leaves count 2, trend y - x with no
\* factor beta, and value alpha * y + (1 - alpha) * x.
C12_HoltFirstTwoAdds ==
    [][(flavor = "Holt" /\ ~merged /\ last'.op = "add") =>
          /\ Succeeded(last')
          /\ acc.count = 0 =>
                /\ acc'.count = 1
                /\ acc'.trend = Zero
                /\ acc'.value = last'.row[1]
          /\ acc.count = 1 =>
                /\ acc'.count = 2
                /\ acc'.trend = RSub(last'.row[1], rows[1][1])
                /\ acc'.value = RAdd(RMul(alpha, last'.row[1]),
                                     RMul(RSub(One, alpha), rows[1][1]))]_vars

\* Two different values have been added, in floating point, with 0 < beta < 1.
C12_Witness ==
    /\ flavor = "Holt"
    /\ precision > 0
    /\ beta \notin {Zero, One}
    /\ BuiltByAdds(2)
    /\ rows[1] # rows[2]
    /\ acc.count = 2
    /\ acc.trend # Zero

\* value^count by count multiplications.
RECURSIVE NaivePower(_, _)
NaivePower(value, count) ==
    IF count = 0 THEN One ELSE RMul(value, NaivePower(value, count - 1))

\* C13: scale(v, 0) = 1, scale(v, n) = v * scale(v, n - 1) for n > 0, so scale
\* is the naive power; scale_one_minus_value(v, n) is that power of 1 - v.
\* Every call returns: the loop of scale ends for every count.
C13_ScaleIsNaivePower ==
    /\ last.op = "scale" =>
          /\ Succeeded(last)
          /\ last.target = 0 => last.out.st = One
          /\ last.target > 0 =>
                last.out.st = RMul(last.row[1], scale(last.row[1], last.target - 1))
          /\ last.out.st = NaivePower(last.row[1], last.target)
    /\ last.op = "scale_one_minus_value" =>
          /\ Succeeded(last)
          /\ last.out.st = NaivePower(RSub(One, last.row[1]), last.target)

\* scale has returned a power with set and clear bits in the count: (2/3)^6.
C13_Witness ==
    /\ last.op = "scale"
    /\ last.row[1] = R(2, 3)
    /\ last.target = 6
    /\ last.out.st = R(64, 729)


\* The parameters a function takes, and how many of them are decay parameters.
Arity(f) == IF f \in SimpleFlavors THEN 1 ELSE IF f \in HoltFlavors THEN 2 ELSE 4
DecayParams(f) == IF f \in SimpleFlavors THEN 1 ELSE IF f \in HoltFlavors THEN 2 ELSE 3
InUnitInterval(x) == 0 <= x[1] /\ x[1] <= x[2]
ValidParams(f, p) ==
    /\ Len(p) = Arity(f)
    /\ \A i \in 1 .. DecayParams(f) : InUnitInterval(p[i])
    /\ f \in HoltWintersFlavors => p[4][1] >= p[4][2]

\* C14: the construction of a smoothing function fails with a configuration
\* error, before any row is processed, whenever the number of parameters is
\* wrong, a decay parameter is below 0 or above 1, or the seasons count of a
\* Holt-Winters function is 0; it succeeds, and keeps the parameters, for
\* every other parameter array.
C14_ConstructionValidatesParameters ==
    last.op = "construct" =>
        IF ValidParams(flavor, last.row)
        THEN /\ Succeeded(last)
             /\ alpha = last.row[1]
             /\ flavor \notin SimpleFlavors => beta = last.row[2]
             /\ flavor \in HoltWintersFlavors => gamma = last.row[3] /\ RInt(seasons_count) = last.row[4]
        ELSE /\ last.out.exc = (IF Len(last.row) # Arity(flavor) THEN "NUMBER_OF_ARGUMENTS_DOESNT_MATCH" ELSE "ILLEGAL_VALUE_OF_ARGUMENT")
             /\ rows = <<>>
             /\ acc = Empty
             /\ to = NoColumn
             /\ ~ENABLED NextFunction

\* A Holt-Winters function has been constructed with two seasons.
C14_Witness ==
    /\ flavor \in HoltWintersFlavors
    /\ last.op = "construct"
    /\ Succeeded(last)
    /\ seasons_count = 2
    /\ gamma = One

\* A construction has been refused for a decay parameter above one.
C14_WitnessRefused ==
    /\ flavor \in HoltFlavors
    /\ last.op = "construct"
    /\ last.out.exc = "ILLEGAL_VALUE_OF_ARGUMENT"
    /\ last.row = <<Half, RInt(2)>>


\* C17: for a Holt-Winters function, every insertResultInto call appends one
\* result row, of one level, one trend and the seasons_count seasons, so
\* that after any number of calls the call has succeeded and the level, the
\* trend and the seasons parts of the result hold one entry for each call.
C17_ResultRowsAgree ==
    last.op = "insertResultInto" =>
        /\ Succeeded(last)
        /\ to.kind = "Tuple"
        /\ Len(to.columns[1].data) = last.target
        /\ Len(to.columns[2].data) = last.target
        /\ Len(to.columns[3].data) = last.target


MaxGap == 3

\* The rows (0, t+1), ..., (0, t+g-1) and then (x, t+g).
GapRows(t, g, x) == [i \in 1 .. g |-> IF i = g THEN <<x, t + g>> ELSE <<Zero, t + i>>]

SameSimpleState(s1, s2) ==
    /\ s1.value = s2.value
    /\ s1.timestamp = s2.timestamp
    /\ s1.first_value = s2.first_value

\* add(x, t+g) on s against the adds of the explicit rows of the gap.
GapWeighsNothing(s, x, g, al) ==
    LET direct == AlphaWithTime_add(s, x, s.timestamp + g, al)
    IN  /\ direct.exc = "none"
        /\ AllAddsSucceed("AlphaWithTime", s, GapRows(s.timestamp, g, x), al, Zero)
        /\ SameSimpleState(direct.st, AddAll("AlphaWithTime", s, GapRows(s.timestamp, g, x), al, Zero))

\* The value after the rows (x0, 0), (x1, 2), (x2, 4) with alpha = 1/3.
GapExample(x0, x1, x2) ==
    AddAll("AlphaWithTime", Empty, <<<<x0, 0>>, <<x1, 2>>, <<x2, 4>>>>, Third, Zero).value
        = R(16 * x0[1] * x1[2] * x2[2] + 12 * x1[1] * x0[2] * x2[2] + 27 * x2[1] * x0[2] * x1[2], 81 * x0[2] * x1[2] * x2[2])

\* C15: for ExponentiallySmoothedAlphaWithTime a gap weighs as rows of value
\* zero: on a non-empty state at timestamp t, add(x, t+g) for g >= 1 gives
\* the value, timestamp and first_value that the adds of (0, t+1), ...,
\* (0, t+g-1) and then (x, t+g) give; with alpha = 1/3 the rows (x0, 0),
\* (x1, 2), (x2, 4) give x0*16/81 + x1*12/81 + x2*27/81.
C15_GapIsZeroRows ==
    [][(flavor = "AlphaWithTime" /\ last'.op = "add" /\ acc.first_value.was) =>
          /\ \A g \in 1 .. MaxGap : GapWeighsNothing(acc, last'.row[1], g, alpha)
          /\ last'.row[2] > acc.timestamp =>
                 /\ Succeeded(last')
                 /\ SameSimpleState(acc', AddAll("AlphaWithTime", acc, GapRows(acc.timestamp, last'.row[2] - acc.timestamp, last'.row[1]), alpha, Zero))
          /\ (alpha = Third /\ Len(rows) = 1) =>
                 \A x0 \in Values, x1 \in Values, x2 \in Values : GapExample(x0, x1, x2)]_vars

\* A row has been added two ticks after the state's timestamp.
C15_Witness ==
    /\ flavor = "AlphaWithTime"
    /\ alpha = Third
    /\ last.op = "add"
    /\ Succeeded(last)
    /\ Len(rows) = 2
    /\ rows[1][2] = 0
    /\ last.row = rows[2]
    /\ last.row[2] = 2


MaxAdds == 4

\* The sum over i in from .. Len(xs) of alpha * (1-alpha)^(Len(xs)-i) * xs[i].
RECURSIVE WeightedTail(_, _, _)
WeightedTail(xs, from, al) ==
    IF from > Len(xs) THEN Zero
    ELSE RAdd(RMul(RMul(al, NaivePower(RSub(One, al), Len(xs) - from)), xs[from]), WeightedTail(xs, from + 1, al))

\* (1-alpha)^(n-1) * x0 + sum over i in 1..n-1 of alpha * (1-alpha)^(n-1-i) * xi,
\* for xs = <<x0, ..., x(n-1)>>, n >= 1.
ClosedForm(xs, al) == RAdd(RMul(NaivePower(RSub(One, al), Len(xs) - 1), xs[1]), WeightedTail(xs, 2, al))

\* The rows of the values xs of a count-indexed function.
CountRows(xs) == [i \in 1 .. Len(xs) |-> <<xs[i], 0>>]

AlphaAfterAdds(xs, al) == AddAll("Alpha", Empty, CountRows(xs), al, Zero)

\* C16: for ExponentiallySmoothedAlpha, after the adds of x0, ..., x(n-1) in
\* that order to an empty state the value is (1-alpha)^(n-1) * x0 + the sum
\* over i in 1..n-1 of alpha * (1-alpha)^(n-1-i) * xi; with alpha = 1/3 and
\* three values it is x0*4/9 + x1*2/9 + x2*3/9.
C16_AlphaClosedForm ==
    [][(flavor = "Alpha" /\ last'.op = "add") =>
          /\ Succeeded(last')
          /\ \A xs \in SeqsUpTo(Values, MaxAdds) \ {<<>>} :
                 /\ AlphaAfterAdds(xs, alpha).value = ClosedForm(xs, alpha)
                 /\ AlphaAfterAdds(xs, alpha).count = Len(xs)
                 /\ AlphaAfterAdds(xs, alpha) = acc => acc'.value = ClosedForm(Append(xs, last'.row[1]), alpha)
          /\ \A x0 \in Values, x1 \in Values, x2 \in Values :
                 AlphaAfterAdds(<<x0, x1, x2>>, Third).value
                     = R(4 * x0[1] * x1[2] * x2[2] + 2 * x1[1] * x0[2] * x2[2] + 3 * x2[1] * x0[2] * x1[2], 9 * x0[2] * x1[2] * x2[2])]_vars

\* Three values, not all the same, have been added with alpha = 1/3.
C16_Witness ==
    /\ flavor = "Alpha"
    /\ alpha = Third
    /\ BuiltByAdds(3)
    /\ last.op = "add"
    /\ rows[1] # rows[3]
    /\ acc.value = ClosedForm(<<rows[3][1], rows[1][1], rows[1][1]>>, Third)


\* The level and the trend after one step of the recurrence on (L, T).
HoltLevel(L, T, x, al) == RAdd(RMul(al, x), RMul(RSub(One, al), RAdd(L, T)))
HoltTrend(L, T, x, al, be) == RAdd(RMul(be, RSub(HoltLevel(L, T, x, al), L)), RMul(RSub(One, be), T))

\* C19: for count-indexed Holt with count >= 2, level L and trend T, add(x)
\* gives L' = alpha*x + (1-alpha)*(L+T), T' = beta*(L'-L) + (1-beta)*T, with
\* L the level before the add, and count' = count + 1.
C19_HoltRecurrence ==
    [][(flavor = "Holt" /\ last'.op = "add" /\ acc.count >= 2) =>
          /\ Succeeded(last')
          /\ acc'.value = HoltLevel(acc.value, acc.trend, last'.row[1], alpha)
          /\ acc'.trend = HoltTrend(acc.value, acc.trend, last'.row[1], alpha, beta)
          /\ acc'.count = acc.count + 1]_vars

\* A third value has been added to a Holt state whose trend is not zero.
C19_Witness ==
    /\ flavor = "Holt"
    /\ last.op = "add"
    /\ Succeeded(last)
    /\ acc.count = 3
    /\ rows[1] # rows[3]
    /\ alpha = Third


DistinctTimestamps(seq) == \A i, j \in 1 .. Len(seq) : i # j => seq[i][2] # seq[j][2]

\* C18: for HoltWithTime, the adds of the same rows, of pairwise distinct
\* timestamps, to an empty state succeed and give the same value, trend and
\* timestamp in whatever order the rows are added.
C18_HoltWithTimeAddOrderFree ==
    (flavor = "HoltWithTime" /\ BuiltByAdds(Len(rows)) /\ DistinctTimestamps(rows)) =>
        \A perm \in PermutationsOf(rows) :
            /\ AllAddsSucceed("HoltWithTime", Empty, perm, alpha, beta)
            /\ AddAll("HoltWithTime", Empty, perm, alpha, beta).value = acc.value
            /\ AddAll("HoltWithTime", Empty, perm, alpha, beta).trend = acc.trend
            /\ AddAll("HoltWithTime", Empty, perm, alpha, beta).timestamp = acc.timestamp

\* The first k rows of seq.
Prefix(seq, k) == [i \in 1 .. k |-> seq[i]]

\* The rows of seq carry the timestamps t, t+1, ..., in that order.
ConsecutiveTimestamps(seq) == \A i \in 1 .. Len(seq) : seq[i][2] = seq[1][2] + i - 1

\* The values of the rows of seq, as rows of a count-indexed function.
AsCountRows(seq) == [i \in 1 .. Len(seq) |-> <<seq[i][1], 0>>]

\* C20: for HoltWithTime, when values are added at consecutive timestamps t,
\* t+1, ... in increasing order, the value and the trend after each add are
\* those of count-indexed Holt after the adds of the same values.
C20_HoltWithTimeFollowsHolt ==
    (flavor = "HoltWithTime" /\ BuiltByAdds(Len(rows)) /\ ConsecutiveTimestamps(rows)
        /\ acc = AddAll("HoltWithTime", Empty, rows, alpha, beta)) =>
        \A k \in 1 .. Len(rows) :
            /\ AddAll("HoltWithTime", Empty, Prefix(rows, k), alpha, beta).value
                   = AddAll("Holt", Empty, AsCountRows(Prefix(rows, k)), alpha, beta).value
            /\ AddAll("HoltWithTime", Empty, Prefix(rows, k), alpha, beta).trend
                   = AddAll("Holt", Empty, AsCountRows(Prefix(rows, k)), alpha, beta).trend


\* C21: for HoltWithTimeFillGaps, when values are added at consecutive
\* timestamps t, t+1, ..., the value, the trend and the count after each add
\* are those of count-indexed Holt after the adds of the same values.
C21_HoltFillGapsFollowsHolt ==
    (flavor = "HoltFillGaps" /\ BuiltByAdds(Len(rows)) /\ ConsecutiveTimestamps(rows)) =>
        /\ acc.value = AddAll("Holt", Empty, AsCountRows(rows), alpha, beta).value
        /\ acc.trend = AddAll("Holt", Empty, AsCountRows(rows), alpha, beta).trend
        /\ acc.count = AddAll("Holt", Empty, AsCountRows(rows), alpha, beta).count
        /\ acc.count = Len(rows)

\* Three values, the last unlike the first, have been added at 0, 1 and 2.
C21_Witness ==
    /\ flavor = "HoltFillGaps"
    /\ BuiltByAdds(3)
    /\ ConsecutiveTimestamps(rows)
    /\ rows[1][1] # rows[3][1]
    /\ acc.trend # Zero


\* Exactly two values have been added, x = rows[1] at t1 and then y = rows[2]
\* at t2 > t1, to a time-indexed Holt accumulator.
TwoValuesAdded ==
    /\ flavor \in {"HoltWithTime", "HoltFillGaps"}
    /\ BuiltByAdds(2)
    /\ rows[1][2] < rows[2][2]
    /\ last.row = rows[2]

\* C22 as stated: after x at t1 and then y at any t2 > t1, the trend of
\* HoltWithTime and of HoltWithTimeFillGaps is the raw difference y - x.
C22_FirstTrendIsRawDifference ==
    TwoValuesAdded => acc.trend = RSub(rows[2][1], rows[1][1])

\* C22, amended: after x at t1 and then y at t2 > t1, the trend of
\* HoltWithTime is (y - x) / (t2 - t1); that of HoltWithTimeFillGaps is y - x
\* when t2 = t1 + 1 and alpha * beta * (y - x) when the gap was filled.  Both
\* are the raw difference when the timestamps are consecutive.
C22_FirstTrendByGap ==
    TwoValuesAdded =>
        acc.trend = IF flavor = "HoltWithTime"
                    THEN RDiv(RSub(rows[2][1], rows[1][1]), RInt(rows[2][2] - rows[1][2]))
                    ELSE IF rows[2][2] = rows[1][2] + 1
                    THEN RSub(rows[2][1], rows[1][1])
                    ELSE RMul(RMul(alpha, beta), RSub(rows[2][1], rows[1][1]))

\* Two unlike values have been added two ticks apart.
C22_Witness ==
    /\ TwoValuesAdded
    /\ rows[2][2] = rows[1][2] + 2
    /\ rows[1][1] # rows[2][1]
    /\ alpha = Third


\* C23: for HoltWithTime, the merge of two non-empty states fails if and only
\* if b has an established trend (b.first_trend is set); when a has none,
\* the merge with the operands exchanged then succeeds.
C23_HoltWithTimeMergeFailsOnRhsTrend ==
    [][(flavor = "HoltWithTime" /\ last'.op = "merge"
            /\ acc.first_value.was /\ last'.rhs.first_value.was) =>
          /\ Succeeded(last') <=> ~last'.rhs.first_trend.was
          /\ ~Succeeded(last') => last'.out.exc = "logic_error"
          /\ (~Succeeded(last') /\ ~acc.first_trend.was) =>
                 HoltWithTime_merge(last'.rhs, acc, alpha, beta).exc = "none"]_vars

\* A merge has failed that succeeds with the operands exchanged.
C23_Witness ==
    /\ flavor = "HoltWithTime"
    /\ last.op = "merge"
    /\ ~Succeeded(last)
    /\ acc.first_value.was
    /\ ~acc.first_trend.was
    /\ last.rhs.first_trend.was
    /\ HoltWithTime_merge(last.rhs, acc, alpha, beta).exc = "none"


\* C24: for the two gap-filling accumulators, the merge of two non-empty
\* states succeeds if and only if b.count = 1 and b.timestamp > a.timestamp;
\* it fails for b.count > 1 and for b.timestamp <= a.timestamp, and on
\* success the timestamp of the result is b.timestamp.
C24_FillGapsMergeAppendsOneLaterValue ==
    [][(flavor \in FillGapsFlavors /\ last'.op = "merge"
            /\ acc.count > 0 /\ last'.rhs.count > 0) =>
          /\ Succeeded(last') <=> (last'.rhs.count = 1 /\ last'.rhs.timestamp > acc.timestamp)
          /\ Succeeded(last') => acc'.timestamp = last'.rhs.timestamp
          /\ ~Succeeded(last') => acc' = acc]_vars

\* A single later value has been merged in across a gap.
C24_Witness ==
    /\ flavor \in FillGapsFlavors
    /\ last.op = "merge"
    /\ Succeeded(last)
    /\ last.rhs.count = 1
    /\ Len(rows) = 2
    /\ acc.timestamp = rows[1][2] + 2

\* A merge of a single value at the state's own timestamp has failed.
C24_WitnessRefused ==
    /\ flavor \in FillGapsFlavors
    /\ last.op = "merge"
    /\ ~Succeeded(last)
    /\ acc.count > 0
    /\ last.rhs.count = 1
    /\ last.rhs.timestamp = acc.timestamp


\* C25: min_or_merge(a, b) is the other marker if either is empty (empty if
\* both are), (a.value + b.value, ts) if both are set at the same timestamp
\* ts, and otherwise the marker of the smaller timestamp; it is commutative.
C25_MinOrMerge ==
    last.op = "min_or_merge" =>
        LET a == last.row
            b == last.rhs
            result == last.out.st
        IN  /\ ~a.was => result = b
            /\ ~b.was => result = a
            /\ (a.was /\ b.was /\ a.timestamp = b.timestamp) =>
                   result = [was |-> TRUE, value |-> R(a.value[1] * b.value[2] + b.value[1] * a.value[2], a.value[2] * b.value[2]), timestamp |-> a.timestamp]
            /\ (a.was /\ b.was /\ a.timestamp < b.timestamp) => result = a
            /\ (a.was /\ b.was /\ a.timestamp > b.timestamp) => result = b
            /\ min_or_merge(b, a) = result

\* Two set markers of one timestamp have been merged.
C25_Witness ==
    /\ last.op = "min_or_merge"
    /\ last.row.was
    /\ last.rhs.was
    /\ last.row.timestamp = last.rhs.timestamp
    /\ last.row.value # last.rhs.value
    /\ last.out.st.value = RInt(30)

\* C26: max_or_empty(a, b) is empty if either marker is empty or if the two
\* timestamps are equal, and otherwise the marker of the larger timestamp:
\* the operand that min_or_merge(a, b) does not return.
C26_MaxOrEmpty ==
    last.op = "max_or_empty" =>
        LET a == last.row
            b == last.rhs
            result == last.out.st
        IN  /\ (~a.was \/ ~b.was) => ~result.was
            /\ (a.was /\ b.was /\ a.timestamp = b.timestamp) => ~result.was
            /\ (a.was /\ b.was /\ a.timestamp > b.timestamp) => result = a /\ min_or_merge(a, b) = b
            /\ (a.was /\ b.was /\ a.timestamp < b.timestamp) => result = b /\ min_or_merge(a, b) = a
            /\ ~result.was => result = make_empty_optional
            /\ max_or_empty(b, a) = result

\* The later of two set markers has been taken, and it is the first operand.
C26_Witness ==
    /\ last.op = "max_or_empty"
    /\ last.row.was
    /\ last.rhs.was
    /\ last.row.timestamp > last.rhs.timestamp
    /\ last.out.st = last.row
    /\ last.row.value # last.rhs.value


\* C27: a failed add or merge leaves the accumulator unchanged: for every
\* flavor, when the call throws, every field of the state after the call
\* equals its value before the call.
C27_FailedCallLeavesState ==
    [][(last'.op \in {"add", "merge"} /\ ~Succeeded(last')) =>
          /\ acc' = acc
          /\ rows' = rows]_vars

\* An add at a timestamp not after the state's has failed on a non-empty
\* gap-filling state.
C27_Witness ==
    /\ flavor \in FillGapsFlavors
    /\ last.op = "add"
    /\ ~Succeeded(last)
    /\ acc.count > 0
    /\ last.row[2] <= acc.timestamp
    /\ acc # Empty

\* A merge of a multi-valued operand has failed on a non-empty state.
C27_WitnessMerge ==
    /\ flavor \in {"Alpha", "Holt", "HoltWithTime"}
    /\ last.op = "merge"
    /\ ~Succeeded(last)
    /\ acc # Empty


\* The sum of the values of the rows of seq that carry the timestamp t.
RECURSIVE SumAt(_, _)
SumAt(seq, t) ==
    IF seq = <<>> THEN Zero
    ELSE IF Head(seq)[2] = t THEN RAdd(Head(seq)[1], SumAt(Tail(seq), t))
    ELSE SumAt(Tail(seq), t)

IsMaxTimestamp(seq, t) == (\E i \in 1 .. Len(seq) : seq[i][2] = t) /\ (\A i \in 1 .. Len(seq) : seq[i][2] <= t)
IsMinTimestamp(seq, t) == (\E i \in 1 .. Len(seq) : seq[i][2] = t) /\ (\A i \in 1 .. Len(seq) : seq[i][2] >= t)

\* C28: for ExponentiallySmoothedAlphaWithTime and HoltWithTime, after any
\* successful adds, in any order, to an empty state: timestamp is the largest
\* timestamp added, first_value is set, its timestamp is the smallest
\* timestamp added (so at most timestamp), and its value is the sum of the
\* values added at that smallest timestamp.
C28_TimestampAndFirstValue ==
    (flavor \in {"AlphaWithTime", "HoltWithTime"} /\ BuiltByAdds(Len(rows)) /\ rows # <<>>) =>
        /\ IsMaxTimestamp(rows, acc.timestamp)
        /\ acc.first_value.was
        /\ IsMinTimestamp(rows, acc.first_value.timestamp)
        /\ acc.first_value.timestamp <= acc.timestamp
        /\ acc.first_value.value = SumAt(rows, acc.first_value.timestamp)

\* Rows have been added out of order, the last at the smallest timestamp,
\* which another row shares.
C28_Witness ==
    /\ flavor \in {"AlphaWithTime", "HoltWithTime"}
    /\ BuiltByAdds(3)
    /\ rows[1][2] = rows[2][2]
    /\ rows[2][2] < rows[3][2]
    /\ last.row[2] = rows[1][2]
    /\ acc.first_value.value = RAdd(rows[1][1], rows[2][1])


C30_FillGapsMergeUsesConstructedAlpha ==
    [][(flavor = "AlphaFillGaps" /\ last'.op = "merge" /\ acc.count > 0
            /\ last'.rhs.count = 1 /\ last'.rhs.timestamp > acc.timestamp) =>
          /\ Succeeded(last')
          /\ Ret(acc') = Binding_add(flavor, acc, last'.rhs.value, last'.rhs.timestamp, alpha, beta)]_vars

====
